---- MODULE Spec2Model ----
(***************************************************************************)
(* Olyph-AI: the survey scorer (survey_agent.py), its batch driver over    *)
(* the response sheet, and the FAQ chatbot (agent.py, chat_agent.py) with  *)
(* its /ask route (app.py), the start-up of the two processes, the        *)
(* /api/report route (app.py) and verify_user (auth/auth.py).              *)
(*                                                                         *)
(* Texts are sequences of one-character strings, so that strip(), split()  *)
(* and lower() are computed and not assumed.  Scores are kept in tenths    *)
(* (0.4 is 4), similarities of the FAQ matcher in hundredths (0.7 is 70).  *)
(***************************************************************************)
EXTENDS Integers, Sequences, FiniteSets, TLC

VARIABLES
    \* ---- survey_agent.py: module state and the sheet ----
    DEBUG,        \* SURVEY_DEBUG, read once at import
    header,       \* the sheet's header row: the set of column names present
    sheet,        \* the data rows: sequence of [column -> cell value]
    pc,           \* per run of process_unscored_responses: its position
    rows,         \* per run: the records get_all_records() returned
    idx,          \* per run: index (from 1) of the record the loop is at
    scores,       \* per run: the mapping score_answers_with_azure returned
    updated,      \* per run: the counter; the run reports "Updated <n> responses"
    \* ---- history of the runs, for stating the properties ----
    readsDone,    \* per run: get_all_records() calls made
    embCalls,     \* per run: hosted embedding calls made
    cellWrites,   \* the update_cell calls made: <<run, row, column>>
    sheet0,       \* the data rows as they were before any run
    startSheet,   \* per run: the data rows as the run read them
    activeAtOpen, \* per run: the runs in progress when this one opened the sheet
    doneAtOpen,   \* per run: the runs that had returned when this one opened it
    \* ---- survey_agent.py: one call of score_answers_with_azure ----
    scIn,         \* the call's input, or NoCall
    scOut,        \* what the call produced
    \* ---- agent.py / chat_agent.py / app.py: the chatbot ----
    variant,      \* which module serves: "agent" or "chat_agent"
    qa_pairs,     \* the FAQ corpus, ordered
    question_vectors, \* "fitted" or "None" (vectorizer fit failed)
    chIn,         \* the last request: query, FAQ-stage outcome, hosted outcome
    chOut,        \* the last reply: what was returned and what was called
    \* ---- the processes and their environment ----
    proc,         \* the process started: "web" (app.py) or "survey" (survey_agent.py)
    env,          \* the environment variables and credential files it finds
    phase,        \* "start", "failed" (import raised), "ready", "serving"
    \* ---- auth/auth.py and app.py: the users file and /api/report ----
    users,        \* authorized_users.json: username -> stored value
    users0,       \* the users file as it was before any call
    bcryptStrict, \* the bcrypt build rejects passwords longer than 72 bytes
    rqIn,         \* the last request (/api/report) or call (verify_user)
    rqOut         \* what it answered and what it touched

batchVars == <<DEBUG, header, sheet, pc, rows, idx, scores, updated, readsDone,
               embCalls, cellWrites, sheet0, startSheet, activeAtOpen, doneAtOpen>>
scoreVars == <<scIn, scOut>>
chatVars  == <<variant, qa_pairs, question_vectors, chIn, chOut>>
webVars   == <<proc, env, phase, users, users0, bcryptStrict, rqIn, rqOut>>
vars == <<batchVars, scoreVars, chatVars, webVars>>

(***************************************************************************)
(* Bounds of the model.                                                    *)
(***************************************************************************)
MaxRows == 2      \* data rows in the sheet
MaxRuns == 2      \* runs of the batch driver, possibly overlapping
MaxFaq  == 2      \* entries of the FAQ corpus

(***************************************************************************)
(* Python values that cross the interfaces: str, number, None.             *)
(***************************************************************************)
Str(s)  == [k |-> "str",  s |-> s,    n |-> 0]
Num(n)  == [k |-> "num",  s |-> <<>>, n |-> n]
NoneV   == [k |-> "none", s |-> <<>>, n |-> 0]
EmptyStr == Str(<<>>)

IsStr(v) == v.k = "str"

\* Python truthiness of a value: None, "" and 0 are false.
Truthy(v) ==
    CASE v.k = "none" -> FALSE
      [] v.k = "str"  -> v.s # <<>>
      [] OTHER        -> v.n # 0

\* str.strip(): leading and trailing whitespace removed.
RECURSIVE lstrip(_)
lstrip(s) == IF s = <<>> THEN s
             ELSE IF Head(s) = " " THEN lstrip(Tail(s)) ELSE s

RECURSIVE rstrip(_)
rstrip(s) == IF s = <<>> THEN s
             ELSE IF s[Len(s)] = " " THEN rstrip(SubSeq(s, 1, Len(s) - 1)) ELSE s

strip(s) == rstrip(lstrip(s))

\* str.lower() on one character and on a text.
lowerChar(c) == CASE c = "A" -> "a" [] c = "B" -> "b" [] OTHER -> c
lower(s) == [i \in 1..Len(s) |-> lowerChar(s[i])]

\* str.split(): the maximal runs of non-whitespace, in order.
RECURSIVE splitFrom(_, _, _)
splitFrom(s, cur, acc) ==
    IF s = <<>> THEN (IF cur = <<>> THEN acc ELSE Append(acc, cur))
    ELSE IF Head(s) = " "
         THEN splitFrom(Tail(s), <<>>, IF cur = <<>> THEN acc ELSE Append(acc, cur))
         ELSE splitFrom(Tail(s), Append(cur, Head(s)), acc)
split(s) == splitFrom(s, <<>>, <<>>)

\* str(x) of a cell value, as far as emptiness after strip() goes.
strOf(v) ==
    CASE v.k = "str"  -> v.s
      [] v.k = "num"  -> <<"#">>          \* the digits of a number: never blank
      [] OTHER        -> <<"N", "o", "n", "e">>

(***************************************************************************)
(* survey_agent.py: configuration.                                         *)
(***************************************************************************)
QIDS == <<"Q1", "Q2", "Q3">>
QSet == {QIDS[i] : i \in 1..Len(QIDS)}

\* QUESTION_COLUMNS: the column titles (the three question sentences) are
\* written "Ans Q1".."Ans Q3" here.
QUESTION_COLUMNS == [q \in QSet |->
    CASE q = "Q1" -> "Ans Q1" [] q = "Q2" -> "Ans Q2" [] OTHER -> "Ans Q3"]
SCORE_COLUMNS == [q \in QSet |->
    CASE q = "Q1" -> "Score Q1" [] q = "Q2" -> "Score Q2" [] OTHER -> "Score Q3"]
TotalColumn == "Total"

\* MODEL_ANSWERS: the three reference answers, shortened to a few words of
\* one letter each.
MODEL_ANSWERS == [q \in QSet |->
    CASE q = "Q1" -> <<"a", " ", "b">>
      [] q = "Q2" -> <<"a">>
      [] OTHER    -> <<"b", " ", "b", " ", "a">>]

(***************************************************************************)
(* Vectors.  A vector is c / sqrt(d2) componentwise: hosted vectors have    *)
(* d2 = 1, an L2-normalised count vector has d2 = the sum of its squares.  *)
(***************************************************************************)
Vec(c, d2) == [none |-> FALSE, c |-> c, d2 |-> d2]
NoVec      == [none |-> TRUE,  c |-> <<>>, d2 |-> 1]

RECURSIVE SumSeq(_)
SumSeq(s) == IF s = <<>> THEN 0 ELSE Head(s) + SumSeq(Tail(s))

SumSq(c) == SumSeq([i \in 1..Len(c) |-> c[i] * c[i]])

\* dict.fromkeys(tokens): the distinct tokens in first-seen order.
RECURSIVE uniq(_, _)
uniq(toks, acc) ==
    IF toks = <<>> THEN acc
    ELSE uniq(Tail(toks),
              IF \E i \in 1..Len(acc) : acc[i] = Head(toks) THEN acc
              ELSE Append(acc, Head(toks)))

\* Counter(tokens).get(w, 0)
CountOf(w, toks) == Cardinality({i \in 1..Len(toks) : toks[i] = w})

tokenize(s) == IF s = <<>> THEN <<>>
               ELSE LET ts == split(s) IN [i \in 1..Len(ts) |-> lower(ts[i])]

\* normalize(v): divide by the L2 norm, the zero vector left as it is.
normalize(c) == IF SumSq(c) = 0 THEN Vec(c, 1) ELSE Vec(c, SumSq(c))

simple_bow_embedding(a_text, b_text) ==
    LET a_tokens == tokenize(a_text)
        b_tokens == tokenize(b_text)
        vocab    == uniq(a_tokens \o b_tokens, <<>>)
        a_vec    == [i \in 1..Len(vocab) |-> CountOf(vocab[i], a_tokens)]
        b_vec    == [i \in 1..Len(vocab) |-> CountOf(vocab[i], b_tokens)]
    IN  <<normalize(a_vec), normalize(b_vec)>>

(***************************************************************************)
(* The hosted embedding call: it raises, answers with a shape that holds   *)
(* no vector, or answers with a vector.                                    *)
(***************************************************************************)
HostRaise     == [k |-> "raise",     c |-> <<>>]
HostMalformed == [k |-> "malformed", c |-> <<>>]
HostVec(c)    == [k |-> "vec",       c |-> c]

\* The call made a second time when the first gave no vector.
get_embedding_safe_Retry(text, out) ==
    IF strip(text) = <<>> THEN [vec |-> NoVec, calls |-> 0]
    ELSE IF out.k = "vec" THEN [vec |-> Vec(out.c, 1), calls |-> 1]
    ELSE [vec |-> NoVec, calls |-> 2]

\* get_embedding_safe(text) with the outcome `out` of the hosted call, should
\* one be made: the vector (or NoVec for None) and the number of calls made.
get_embedding_safe(text, out) ==
    IF strip(text) = <<>> THEN [vec |-> NoVec, calls |-> 0]
    ELSE IF out.k = "vec" THEN [vec |-> Vec(out.c, 1), calls |-> 1]
    ELSE [vec |-> NoVec, calls |-> 1]

\* A similarity num / sqrt(den2); 0.0 is ZeroSim.
ZeroSim == [num |-> 0, den2 |-> 1]

cosine_similarity(vec1, vec2) ==
    IF vec1.none \/ vec2.none THEN ZeroSim
    ELSE IF Len(vec1.c) # Len(vec2.c) THEN ZeroSim
    ELSE LET dot == SumSeq([i \in 1..Len(vec1.c) |-> vec1.c[i] * vec2.c[i]])
             n1sq == SumSq(vec1.c)
             n2sq == SumSq(vec2.c)
         IN  IF n1sq = 0 \/ n2sq = 0 THEN ZeroSim
             ELSE [num |-> dot, den2 |-> n1sq * n2sq]

\* max(0.0, raw_sim) left out: a negative similarity is rounded as it is.
clampNeg_None(sim) == sim

\* max(0.0, raw_sim)
clampNeg(sim) == IF sim.num < 0 THEN ZeroSim ELSE sim

\* round(x, 1) of a similarity in [0, 1], in tenths; a tie goes to the even
\* neighbour.  10x lies in [k - 1/2, k + 1/2] iff
\* (2k-1)^2 den2 <= 400 num^2 <= (2k+1)^2 den2.
round1(sim) ==
    LET X == 400 * sim.num * sim.num
        P == sim.den2
        even(k) == k % 2 = 0
    IN  CHOOSE k \in 0..10 :
            /\ \/ k = 0
               \/ (2*k - 1) * (2*k - 1) * P < X
               \/ ((2*k - 1) * (2*k - 1) * P = X /\ even(k))
            /\ \/ X < (2*k + 1) * (2*k + 1) * P
               \/ (X = (2*k + 1) * (2*k + 1) * P /\ even(k))

\* Only the vector that is missing replaced by its bag-of-words vector.
score_single_pair_Mixed(model_answer, user_answer, o1, o2) ==
    LET m == get_embedding_safe(model_answer, o1)
        u == IF user_answer # <<>> THEN get_embedding_safe(user_answer, o2)
             ELSE [vec |-> NoVec, calls |-> 0]
        bow == simple_bow_embedding(model_answer, user_answer)
        v1 == IF m.vec.none THEN bow[1] ELSE m.vec
        v2 == IF u.vec.none THEN bow[2] ELSE u.vec
    IN  [score  |-> round1(clampNeg(cosine_similarity(v1, v2))),
         calls  |-> m.calls + u.calls,
         hosted |-> ~m.vec.none /\ ~u.vec.none,
         vec1   |-> v1,
         vec2   |-> v2]

\* score_single_pair(model_answer, user_answer); o1 and o2 are the outcomes
\* of the hosted calls for the model answer and for the user answer.
score_single_pair(model_answer, user_answer, o1, o2) ==
    LET m == get_embedding_safe(model_answer, o1)
        u == IF user_answer # <<>> THEN get_embedding_safe(user_answer, o2)
             ELSE [vec |-> NoVec, calls |-> 0]
        hosted == ~m.vec.none /\ ~u.vec.none
        pair == IF hosted THEN <<m.vec, u.vec>>
                ELSE simple_bow_embedding(model_answer, user_answer)
        raw_sim == cosine_similarity(pair[1], pair[2])
    IN  [score  |-> round1(clampNeg(raw_sim)),
         calls  |-> m.calls + u.calls,
         hosted |-> hosted,
         vec1   |-> pair[1],
         vec2   |-> pair[2]]

\* (user_answers.get(qid) or "").strip(): a missing key reads as None; a
\* truthy value that is no str has no strip() and raises AttributeError.
answerRaises(v) == Truthy(v) /\ ~IsStr(v)
\* The answer taken without strip(): a cell of blanks is scored.
answerText_NoStrip(v) == IF Truthy(v) THEN v.s ELSE <<>>

answerText(v) == IF Truthy(v) THEN strip(v.s) ELSE <<>>

\* score_answers_with_azure(user_answers): the loop over MODEL_ANSWERS from
\* question i on.  acc.scores is the dict built so far, acc.callsOf the
\* hosted calls made for each question.
RECURSIVE scoreFrom(_, _, _, _)
scoreFrom(i, user_answers, outs, acc) ==
    IF i > Len(QIDS)
    THEN [acc EXCEPT !.scores = acc.scores @@ ("total" :> acc.total)]
    ELSE LET qid == QIDS[i]
             v   == user_answers[qid]
         IN  IF answerRaises(v)
             THEN [acc EXCEPT !.raised = TRUE]
             ELSE LET user_answer == answerText(v)
                  IN  IF user_answer = <<>>
                      THEN scoreFrom(i + 1, user_answers, outs,
                               [acc EXCEPT !.scores = acc.scores @@ (qid :> 0),
                                           !.callsOf = acc.callsOf @@ (qid :> 0)])
                      ELSE LET r == score_single_pair(MODEL_ANSWERS[qid], user_answer,
                                                      outs[qid][1], outs[qid][2])
                           IN  scoreFrom(i + 1, user_answers, outs,
                                   [acc EXCEPT !.scores = acc.scores @@ (qid :> r.score),
                                               !.total  = acc.total + r.score,
                                               !.calls  = acc.calls + r.calls,
                                               !.callsOf = acc.callsOf @@ (qid :> r.calls)])

EmptyDict == [x \in {} |-> 0]

score_answers_with_azure(user_answers, outs) ==
    scoreFrom(1, user_answers, outs,
              [raised |-> FALSE, scores |-> EmptyDict, total |-> 0, calls |-> 0,
               callsOf |-> EmptyDict])

(***************************************************************************)
(* survey_agent.py: process_unscored_responses over the sheet.             *)
(***************************************************************************)
Runs == 1..MaxRuns

QuestionCols == {QUESTION_COLUMNS[q] : q \in QSet}
ScoreCols    == {SCORE_COLUMNS[q] : q \in QSet}
Columns      == QuestionCols \cup ScoreCols \cup {TotalColumn}

\* The check with the score and total columns forgotten.
missingRequired_QuestionsOnly(hdr) == QuestionCols \ hdr # {}

\* required = QUESTION_COLUMNS.values() + SCORE_COLUMNS.values() + ["Total"];
\* the run raises ValueError if one of them is not in the header.
missingRequired(hdr) == (QuestionCols \cup ScoreCols \cup {TotalColumn}) \ hdr # {}

\* row.get(col, default) on a record of get_all_records(): its keys are the
\* header's columns.
recordGet(hdr, row, col, default) == IF col \in hdr THEN row[col] ELSE default

\* The guard written as a truth test, "if row.get('Score Q1')": a score of 0
\* reads as not scored.
alreadyScored_Truthy(hdr, row) == Truthy(recordGet(hdr, row, "Score Q1", EmptyStr))

\* str(row.get("Score Q1", "")).strip() != ""
alreadyScored(hdr, row) ==
    strip(strOf(recordGet(hdr, row, "Score Q1", EmptyStr))) # <<>>

\* answers = {qid: row.get(col) for qid, col in QUESTION_COLUMNS.items()}
answersOf(hdr, row) ==
    [q \in QSet |-> recordGet(hdr, row, QUESTION_COLUMNS[q], NoneV)]

\* scores.get(key, 0.0)
dictGet(d, key) == IF key \in DOMAIN d THEN d[key] ELSE 0

\* The total written into the Score Q3 column.
writeColumn_TotalMisplaced(step) ==
    CASE step = 1 -> SCORE_COLUMNS["Q1"]
      [] step = 2 -> SCORE_COLUMNS["Q2"]
      [] OTHER    -> SCORE_COLUMNS["Q3"]

\* The four update_cell calls of one row, in order: the column and the key of
\* the scores mapping written to it.
writeColumn(step) ==
    CASE step = 1 -> SCORE_COLUMNS["Q1"]
      [] step = 2 -> SCORE_COLUMNS["Q2"]
      [] step = 3 -> SCORE_COLUMNS["Q3"]
      [] OTHER    -> TotalColumn
writeKey(step) ==
    CASE step = 1 -> "Q1" [] step = 2 -> "Q2" [] step = 3 -> "Q3" [] OTHER -> "total"

WritePcs == {"w1", "w2", "w3", "w4"}
stepOf(p) == CASE p = "w1" -> 1 [] p = "w2" -> 2 [] p = "w3" -> 3 [] OTHER -> 4
nextWritePc(p) == CASE p = "w1" -> "w2" [] p = "w2" -> "w3" [] p = "w3" -> "w4"
                    [] OTHER -> "loop"
ActivePcs == {"fetch", "loop"} \cup WritePcs

\* The hosted embedding service as the batch sees it, per question the
\* outcomes for the model answer and for the user answer.
V10 == HostVec(<<1, 0>>)
V01 == HostVec(<<0, 1>>)
BatchOuts == {[q \in QSet |-> <<HostRaise, HostRaise>>],
              [q \in QSet |-> <<V10, V01>>]}

\* Rows a sheet can hold before a run: answers as get_all_records() delivers
\* them (text, or a number where the cell reads as one) and score cells empty,
\* filled, or a blank Score Q1.
TextAB == Str(<<"a", " ", "b">>)
mkRow(a1, a2, a3, s1, s2, s3, tot) ==
    [c \in Columns |->
        CASE c = "Ans Q1" -> a1 [] c = "Ans Q2" -> a2 [] c = "Ans Q3" -> a3
          [] c = "Score Q1" -> s1 [] c = "Score Q2" -> s2 [] c = "Score Q3" -> s3
          [] OTHER -> tot]
RowTemplates ==
    { mkRow(TextAB, Str(<<"A">>), Str(<<" ">>), EmptyStr, EmptyStr, EmptyStr, EmptyStr),
      mkRow(TextAB, Num(5), EmptyStr, EmptyStr, EmptyStr, EmptyStr, EmptyStr),
      mkRow(TextAB, TextAB, TextAB, Num(5), Num(0), Num(10), Num(15)),
      mkRow(TextAB, TextAB, TextAB, Str(<<" ">>), EmptyStr, EmptyStr, EmptyStr) }

Sheets == UNION {[1..n -> RowTemplates] : n \in 0..MaxRows}

\* Headers: every required column, or all but one.
Headers == {Columns} \cup {Columns \ {c} : c \in Columns}

NoCall == [k |-> "none"]

InitBatch ==
    /\ DEBUG \in BOOLEAN
    /\ header \in Headers
    /\ sheet \in Sheets
    /\ sheet0 = sheet
    /\ pc = [r \in Runs |-> "idle"]
    /\ rows = [r \in Runs |-> <<>>]
    /\ idx = [r \in Runs |-> 0]
    /\ scores = [r \in Runs |-> EmptyDict]
    /\ updated = [r \in Runs |-> 0]
    /\ readsDone = [r \in Runs |-> 0]
    /\ embCalls = [r \in Runs |-> 0]
    /\ cellWrites = {}
    /\ startSheet = [r \in Runs |-> <<>>]
    /\ activeAtOpen = [r \in Runs |-> {}]
    /\ doneAtOpen = [r \in Runs |-> {}]

\* Lines 240-247: open the worksheet, read the header row, build col_index and
\* check the required columns.  Runs are numbered in the order they start.
Open(r) ==
    /\ pc[r] = "idle"
    /\ \A q \in Runs : q < r => pc[q] # "idle"
    /\ activeAtOpen' = [activeAtOpen EXCEPT ![r] = {q \in Runs : pc[q] \in ActivePcs}]
    /\ doneAtOpen' = [doneAtOpen EXCEPT ![r] = {q \in Runs : pc[q] = "done"}]
    /\ pc' = [pc EXCEPT ![r] = IF missingRequired(header) THEN "raised" ELSE "fetch"]
    /\ UNCHANGED <<DEBUG, header, sheet, rows, idx, scores, updated, readsDone,
                   embCalls, cellWrites, sheet0, startSheet>>

\* Line 249: rows = ws.get_all_records(); updated = 0.
Fetch(r) ==
    /\ pc[r] = "fetch"
    /\ rows' = [rows EXCEPT ![r] = sheet]
    /\ startSheet' = [startSheet EXCEPT ![r] = sheet]
    /\ readsDone' = [readsDone EXCEPT ![r] = @ + 1]
    /\ idx' = [idx EXCEPT ![r] = 1]
    /\ updated' = [updated EXCEPT ![r] = 0]
    /\ pc' = [pc EXCEPT ![r] = "loop"]
    /\ UNCHANGED <<DEBUG, header, sheet, scores, embCalls, cellWrites, sheet0,
                   activeAtOpen, doneAtOpen>>

\* Lines 254-257: a record whose Score Q1 is not blank is skipped.
SkipRow(r) ==
    /\ pc[r] = "loop"
    /\ idx[r] <= Len(rows[r])
    /\ alreadyScored(header, rows[r][idx[r]])
    /\ idx' = [idx EXCEPT ![r] = @ + 1]
    /\ UNCHANGED <<DEBUG, header, sheet, pc, rows, scores, updated, readsDone,
                   embCalls, cellWrites, sheet0, startSheet, activeAtOpen, doneAtOpen>>

\* Lines 259-268 (and 273 under DEBUG): the record is scored; an exception of
\* score_answers_with_azure leaves the run.  Under DEBUG nothing is written
\* and the counter is still incremented.
ScoreRow(r) ==
    /\ pc[r] = "loop"
    /\ idx[r] <= Len(rows[r])
    /\ ~alreadyScored(header, rows[r][idx[r]])
    /\ \E outs \in BatchOuts :
         LET res == score_answers_with_azure(answersOf(header, rows[r][idx[r]]), outs)
         IN  /\ embCalls' = [embCalls EXCEPT ![r] = @ + res.calls]
             /\ IF res.raised
                THEN /\ pc' = [pc EXCEPT ![r] = "raised"]
                     /\ UNCHANGED <<scores, updated, idx>>
                ELSE /\ scores' = [scores EXCEPT ![r] = res.scores]
                     /\ IF DEBUG
                        THEN /\ updated' = [updated EXCEPT ![r] = @ + 1]
                             /\ idx' = [idx EXCEPT ![r] = @ + 1]
                             /\ pc' = pc
                        ELSE /\ pc' = [pc EXCEPT ![r] = "w1"]
                             /\ UNCHANGED <<updated, idx>>
    /\ UNCHANGED <<DEBUG, header, sheet, rows, readsDone, cellWrites, sheet0,
                   startSheet, activeAtOpen, doneAtOpen>>

\* Lines 270-273: one update_cell call; col_index[col] raises KeyError for a
\* column the header lacks.  After the fourth, updated += 1 and the loop goes on.
WriteCell(r) ==
    /\ pc[r] \in WritePcs
    /\ LET col == writeColumn(stepOf(pc[r]))
           val == Num(dictGet(scores[r], writeKey(stepOf(pc[r]))))
       IN  IF col \notin header
           THEN /\ pc' = [pc EXCEPT ![r] = "raised"]
                /\ UNCHANGED <<sheet, cellWrites, updated, idx>>
           ELSE /\ sheet' = [sheet EXCEPT ![idx[r]][col] = val]
                /\ cellWrites' = cellWrites \cup {<<r, idx[r], col>>}
                /\ pc' = [pc EXCEPT ![r] = nextWritePc(pc[r])]
                /\ IF pc[r] = "w4"
                   THEN /\ updated' = [updated EXCEPT ![r] = @ + 1]
                        /\ idx' = [idx EXCEPT ![r] = @ + 1]
                   ELSE UNCHANGED <<updated, idx>>
    /\ UNCHANGED <<DEBUG, header, rows, scores, readsDone, embCalls, sheet0,
                   startSheet, activeAtOpen, doneAtOpen>>

\* Lines 275-279: the loop is over; the run returns "Updated <updated> responses".
Finish(r) ==
    /\ pc[r] = "loop"
    /\ idx[r] > Len(rows[r])
    /\ pc' = [pc EXCEPT ![r] = "done"]
    /\ rows' = [rows EXCEPT ![r] = <<>>]
    /\ scores' = [scores EXCEPT ![r] = EmptyDict]
    /\ idx' = [idx EXCEPT ![r] = 0]
    /\ UNCHANGED <<DEBUG, header, sheet, updated, readsDone, embCalls,
                   cellWrites, sheet0, startSheet, activeAtOpen, doneAtOpen>>

\* The process is interrupted (killed, power loss) between two steps; its
\* locals are gone.
Crash(r) ==
    /\ pc[r] \in ActivePcs
    /\ pc' = [pc EXCEPT ![r] = "crashed"]
    /\ rows' = [rows EXCEPT ![r] = <<>>]
    /\ scores' = [scores EXCEPT ![r] = EmptyDict]
    /\ idx' = [idx EXCEPT ![r] = 0]
    /\ updated' = [updated EXCEPT ![r] = 0]
    /\ UNCHANGED <<DEBUG, header, sheet, readsDone, embCalls,
                   cellWrites, sheet0, startSheet, activeAtOpen, doneAtOpen>>

InitScoreIdle == scIn = NoCall /\ scOut = NoCall
InitChatIdle ==
    /\ variant = "agent"
    /\ qa_pairs = <<>>
    /\ question_vectors = "None"
    /\ chIn = NoCall
    /\ chOut = NoCall

\* No process, request or call of the web side is under consideration.
InitWebIdle ==
    /\ proc = "none"
    /\ env = NoCall
    /\ phase = "start"
    /\ users = NoCall
    /\ users0 = NoCall
    /\ bcryptStrict = FALSE
    /\ rqIn = NoCall
    /\ rqOut = NoCall

Init == InitBatch /\ InitScoreIdle /\ InitChatIdle /\ InitWebIdle

\* The driver used as designed: one run at a time, the next one started only
\* when no run is in progress.
Exclusive == \A q \in Runs : pc[q] \notin ActivePcs

Next ==
    \E r \in Runs :
        \/ Exclusive /\ Open(r) /\ UNCHANGED <<scoreVars, chatVars, webVars>>
        \/ Fetch(r) /\ UNCHANGED <<scoreVars, chatVars, webVars>>
        \/ SkipRow(r) /\ UNCHANGED <<scoreVars, chatVars, webVars>>
        \/ ScoreRow(r) /\ UNCHANGED <<scoreVars, chatVars, webVars>>
        \/ WriteCell(r) /\ UNCHANGED <<scoreVars, chatVars, webVars>>
        \/ Finish(r) /\ UNCHANGED <<scoreVars, chatVars, webVars>>
        \/ Crash(r) /\ UNCHANGED <<scoreVars, chatVars, webVars>>

Spec == Init /\ [][Next]_vars

\* The driver started twice at will: the two runs may overlap.
TwoRuns == {1, 2}
NextConc ==
    \E r \in TwoRuns :
        \/ Open(r) /\ UNCHANGED <<scoreVars, chatVars, webVars>>
        \/ Fetch(r) /\ UNCHANGED <<scoreVars, chatVars, webVars>>
        \/ SkipRow(r) /\ UNCHANGED <<scoreVars, chatVars, webVars>>
        \/ ScoreRow(r) /\ UNCHANGED <<scoreVars, chatVars, webVars>>
        \/ WriteCell(r) /\ UNCHANGED <<scoreVars, chatVars, webVars>>
        \/ Finish(r) /\ UNCHANGED <<scoreVars, chatVars, webVars>>
        \/ Crash(r) /\ UNCHANGED <<scoreVars, chatVars, webVars>>

\* Sheets with every required column whose rows are not scored or scored.
InitConc ==
    /\ Init
    /\ header = Columns
    /\ \A i \in 1..Len(sheet) :
          \/ \A c \in ScoreCols \cup {TotalColumn} : sheet[i][c] = EmptyStr
          \/ \A c \in ScoreCols \cup {TotalColumn} : sheet[i][c].k = "num"

SpecConc == InitConc /\ [][NextConc]_vars

(***************************************************************************)
(* survey_agent.py: score_answers_with_azure called on its own.            *)
(***************************************************************************)
\* What a row source can deliver for an answer: no such key, an empty or
\* blank or worded cell, and a number where the cell reads as one.
AnswerValues == {NoneV, EmptyStr, Str(<<" ">>), TextAB, Str(<<" ", "B", " ">>),
                 Num(0), Num(5)}
PairOutcomes == {<<HostRaise, HostRaise>>, <<V10, V10>>, <<V10, V01>>,
                 <<V10, HostMalformed>>}

InitBatchIdle ==
    /\ DEBUG = FALSE
    /\ header = Columns
    /\ sheet = <<>>
    /\ sheet0 = <<>>
    /\ pc = [r \in Runs |-> "idle"]
    /\ rows = [r \in Runs |-> <<>>]
    /\ idx = [r \in Runs |-> 0]
    /\ scores = [r \in Runs |-> EmptyDict]
    /\ updated = [r \in Runs |-> 0]
    /\ readsDone = [r \in Runs |-> 0]
    /\ embCalls = [r \in Runs |-> 0]
    /\ cellWrites = {}
    /\ startSheet = [r \in Runs |-> <<>>]
    /\ activeAtOpen = [r \in Runs |-> {}]
    /\ doneAtOpen = [r \in Runs |-> {}]

\* One call score_answers_with_azure(user_answers), the hosted service
\* answering each embedding call as outs says.
ScoreCall ==
    \E user_answers \in [QSet -> AnswerValues], outs \in [QSet -> PairOutcomes] :
        /\ scIn = NoCall
        /\ scIn' = [k |-> "call", user_answers |-> user_answers, outs |-> outs]
        /\ scOut' = score_answers_with_azure(user_answers, outs)
        /\ UNCHANGED <<batchVars, chatVars, webVars>>

InitScore == InitBatchIdle /\ InitScoreIdle /\ InitChatIdle /\ InitWebIdle
NextScore == ScoreCall
SpecScore == InitScore /\ [][NextScore]_vars

\* C3: every call of score_answers_with_azure returns (does not raise) a
\* mapping with a score for Q1, Q2 and Q3 and a total.
C3_NeverRaises ==
    scIn # NoCall =>
        /\ ~scOut.raised
        /\ DOMAIN scOut.scores = QSet \cup {"total"}

\* C12: in the mapping a call of score_answers_with_azure returns, a question
\* whose answer is missing, empty or made of blanks has score 0.0 and no
\* embedding call was made for it; every score lies in [0.0, 1.0]; total is
\* the sum of the three scores of that mapping (so within [0.0, 3.0]).
Returned == scIn # NoCall /\ ~scOut.raised
AnswerBlank(v) == ~Truthy(v) \/ (IsStr(v) /\ strip(v.s) = <<>>)

C12_RowAggregation ==
    Returned =>
        /\ \A q \in QSet :
              AnswerBlank(scIn.user_answers[q])
                 => (scOut.scores[q] = 0 /\ scOut.callsOf[q] = 0)
        /\ \A q \in QSet : scOut.scores[q] \in 0..10
        /\ scOut.scores["total"] =
              scOut.scores["Q1"] + scOut.scores["Q2"] + scOut.scores["Q3"]
        /\ scOut.scores["total"] \in 0..30

C12_Witness ==
    /\ Returned
    /\ scIn.user_answers["Q1"] = EmptyStr
    /\ scIn.user_answers["Q2"] = TextAB
    /\ scIn.user_answers["Q3"] = Str(<<" ">>)
    /\ scOut.scores["Q1"] = 0 /\ scOut.scores["Q3"] = 0
    /\ scOut.scores["Q2"] > 0
    /\ scOut.scores["total"] = scOut.scores["Q2"]
    /\ scOut.callsOf["Q2"] = 2

(***************************************************************************)
(* survey_agent.py: score_single_pair and cosine_similarity on their own.  *)
(***************************************************************************)
\* The texts score_single_pair is given: a model answer of MODEL_ANSWERS and
\* a user answer (empty, blank, worded, in capitals, with no word shared).
ModelTexts == {MODEL_ANSWERS[q] : q \in QSet}
UserTexts == {<<>>, <<" ">>, <<"a", " ", "b">>, <<"B">>, <<"c">>, <<"b", " ", "b", " ", "a">>}

\* The hosted embedding call: the deployment answers with vectors of one
\* dimension (2 here), with components of either sign or all zero.
HostOutcomes == {HostRaise, HostMalformed, V10, V01, HostVec(<<-1, 0>>),
                 HostVec(<<0, 0>>), HostVec(<<1, 1>>)}

\* The vectors cosine_similarity can be handed: None, and lists of floats of
\* any length.
CosVectors == {NoVec, Vec(<<>>, 1), Vec(<<1, 0>>, 1), Vec(<<-1, 0>>, 1),
               Vec(<<0, 0>>, 1), Vec(<<1, 2>>, 1), Vec(<<1, 0, 0>>, 1),
               Vec(<<1, 1>>, 2)}

\* One call score_single_pair(model_answer, user_answer).
PairCall ==
    \E model_answer \in ModelTexts, user_answer \in UserTexts,
       o1 \in HostOutcomes, o2 \in HostOutcomes :
        /\ scIn = NoCall
        /\ scIn' = [k |-> "pair", model_answer |-> model_answer,
                    user_answer |-> user_answer, o1 |-> o1, o2 |-> o2]
        /\ scOut' = score_single_pair(model_answer, user_answer, o1, o2)
        /\ UNCHANGED <<batchVars, chatVars, webVars>>

\* One call cosine_similarity(vec1, vec2), mapped and rounded as lines
\* 202-204 do.
CosineCall ==
    \E vec1 \in CosVectors, vec2 \in CosVectors :
        /\ scIn = NoCall
        /\ scIn' = [k |-> "cos", vec1 |-> vec1, vec2 |-> vec2]
        /\ scOut' = [raw_sim |-> cosine_similarity(vec1, vec2),
                     score |-> round1(clampNeg(cosine_similarity(vec1, vec2)))]
        /\ UNCHANGED <<batchVars, chatVars, webVars>>

NextPair == PairCall \/ CosineCall
SpecPair == InitScore /\ [][NextPair]_vars

PairDone == scIn.k = "pair"
\* The hosted vector of a text is available: the text is not blank and the
\* call answered with a vector.
HostedAvailable(text, o) == strip(text) # <<>> /\ o.k = "vec"
BothHosted ==
    /\ HostedAvailable(scIn.model_answer, scIn.o1)
    /\ scIn.user_answer # <<>>
    /\ HostedAvailable(scIn.user_answer, scIn.o2)
TokenSet(text) == {tokenize(text)[i] : i \in 1..Len(tokenize(text))}
\* An L2-normalised count vector, or the zero vector of a text with no word.
UnitOrZero(v, text) ==
    IF TokenSet(text) = {} THEN SumSq(v.c) = 0 ELSE (SumSq(v.c) = v.d2 /\ v.d2 > 0)

\* C13: in every call of score_single_pair a score is returned whatever the
\* hosted calls did, and the two vectors compared have the same length and
\* the same origin: both are the hosted vectors when both are available;
\* otherwise (a call raised, a reply was malformed, the user text is empty or
\* blank) both come from simple_bow_embedding over the pair, have the length
\* of the pair's vocabulary and are of unit norm or zero.
C13_ComparableVectors ==
    PairDone =>
        /\ scOut.score \in 0..10
        /\ ~scOut.vec1.none /\ ~scOut.vec2.none
        /\ Len(scOut.vec1.c) = Len(scOut.vec2.c)
        /\ IF BothHosted
           THEN /\ scOut.hosted
                /\ scOut.vec1 = Vec(scIn.o1.c, 1)
                /\ scOut.vec2 = Vec(scIn.o2.c, 1)
           ELSE /\ ~scOut.hosted
                /\ <<scOut.vec1, scOut.vec2>> =
                      simple_bow_embedding(scIn.model_answer, scIn.user_answer)
                /\ Len(scOut.vec1.c) =
                      Cardinality(TokenSet(scIn.model_answer) \cup TokenSet(scIn.user_answer))
                /\ UnitOrZero(scOut.vec1, scIn.model_answer)
                /\ UnitOrZero(scOut.vec2, scIn.user_answer)

C13_Witness ==
    /\ PairDone
    /\ scIn.o1 = V10 /\ scIn.o2 = HostRaise
    /\ scIn.model_answer = <<"a", " ", "b">> /\ scIn.user_answer = <<"B">>
    /\ ~scOut.hosted
    /\ Len(scOut.vec1.c) = 2 /\ Len(scOut.vec2.c) = 2
    /\ scOut.score = 7

\* The dot product of two lists of equal length.
Dot(c1, c2) == SumSeq([i \in 1..Len(c1) |-> c1[i] * c2[i]])
\* score (in tenths) is x = num / sqrt(den2) >= 0 rounded to one decimal:
\* |10 x - score| <= 1/2.
RoundedOf(score, num, den2) ==
    /\ (2 * score - 1) * (2 * score - 1) * den2 <= 400 * num * num \/ score = 0
    /\ 400 * num * num <= (2 * score + 1) * (2 * score + 1) * den2
CosDone == scIn.k = "cos"
CosDegenerate ==
    \/ scIn.vec1.none \/ scIn.vec2.none
    \/ Len(scIn.vec1.c) # Len(scIn.vec2.c)
    \/ SumSq(scIn.vec1.c) = 0 \/ SumSq(scIn.vec2.c) = 0

\* C14: score_single_pair returns a score in [0.0, 1.0], the similarity of
\* the two vectors rounded to one decimal, and 0.0 when the similarity is
\* negative (anti-parallel vectors included); cosine_similarity returns 0.0
\* when a vector is None, the lengths differ or a norm is zero, and never
\* divides by zero.
C14_ScoreBounds ==
    /\ PairDone =>
          LET dot == Dot(scOut.vec1.c, scOut.vec2.c)
              n2  == SumSq(scOut.vec1.c) * SumSq(scOut.vec2.c)
          IN  /\ scOut.score \in 0..10
              /\ dot < 0 => scOut.score = 0
              /\ n2 = 0 => scOut.score = 0
              /\ (dot >= 0 /\ n2 > 0) => RoundedOf(scOut.score, dot, n2)
    /\ CosDone =>
          /\ scOut.raw_sim.den2 > 0
          /\ scOut.score \in 0..10
          /\ CosDegenerate => (scOut.raw_sim = ZeroSim /\ scOut.score = 0)
          /\ ~CosDegenerate =>
                /\ scOut.raw_sim.num = Dot(scIn.vec1.c, scIn.vec2.c)
                /\ scOut.raw_sim.num < 0 => scOut.score = 0

C14_Witness ==
    /\ PairDone
    /\ scOut.hosted
    /\ scIn.o1 = V10 /\ scIn.o2 = HostVec(<<-1, 0>>)
    /\ scOut.score = 0

(***************************************************************************)
(* agent.py / chat_agent.py: OlyphauntChatbot, and app.py: the /ask route. *)
(***************************************************************************)
\* "score >= 0.7" in agent.py, "threshold = 0.6" in chat_agent.py, in
\* hundredths.
THRESHOLD_AGENT == 70
threshold == 60
thresholdOf(v) == IF v = "agent" THEN THRESHOLD_AGENT ELSE threshold

\* The fixed replies.
MSG_INVALID   == Str(<<"Please enter a valid question.">>)
MSG_UNCERTAIN == Str(<<"I'm not certain about that. Could you rephrase or provide more details?">>)
MSG_OFFLINE   == Str(<<"Olyph AI is currently offline or Azure OpenAI returned an error. Please try again later.">>)
MSG_ASK_INVALID == Str(<<"Please enter a valid message.">>)
MSG_ASK_ERROR   == Str(<<"Something went wrong on the server. Check logs.">>)

\* The corpus: the first n pairs of the FAQ document.
FaqPair(i) == [question |-> IF i % 2 = 1 THEN <<"A">> ELSE <<"b", " ", "A">>,
               answer   |-> Str(<<"answer", i>>)]
Corpora == {[i \in 1..n |-> FaqPair(i)] : n \in 1..MaxFaq}

\* __init__: self.questions, self.answers
questionsOf(pairs) == [i \in 1..Len(pairs) |-> lower(pairs[i].question)]
answersOfFaq(pairs) == [i \in 1..Len(pairs) |-> pairs[i].answer]

\* The FAQ stage as the library computes it: transform() or
\* cosine_similarity() raises, or there is one similarity per stored question.
SimValues == {59, 60, 70}
FaqOutcomes(n) == {[k |-> "error", sims |-> <<>>]}
                  \cup {[k |-> "sims", sims |-> s] : s \in [1..n -> SimValues]}

\* The last index holding the maximum.
argmax_Last(sims) ==
    CHOOSE i \in 1..Len(sims) :
        /\ \A j \in 1..Len(sims) : sims[j] <= sims[i]
        /\ \A j \in (i + 1)..Len(sims) : sims[j] < sims[i]

\* np.argmax(sims): the first index holding the maximum.
argmax(sims) ==
    CHOOSE i \in 1..Len(sims) :
        /\ \A j \in 1..Len(sims) : sims[j] <= sims[i]
        /\ \A j \in 1..(i - 1) : sims[j] < sims[i]

\* A choice of the hosted reply.  kind: an object (attributes) or a dict
\* (keys).  hasMsg: it has a message attribute / key; mk: the message is None
\* or another value ("other"), a dict or an object; hasContent: the message
\* has a content key / attribute; hasText: the choice has a text attribute /
\* key.
Choice(kind, hasMsg, mk, hasContent, content, hasText, text) ==
    [kind |-> kind, hasMsg |-> hasMsg, mk |-> mk, hasContent |-> hasContent,
     content |-> content, hasText |-> hasText, text |-> text]

Contents == {NoneV, EmptyStr, Str(<<" ">>), Str(<<" ", "h", " ">>)}
FlatTexts == {EmptyStr, Str(<<"t">>)}

MessageShapes ==
    {<<FALSE, "other", FALSE, NoneV>>, <<TRUE, "other", FALSE, NoneV>>}
    \cup {<<TRUE, mk, FALSE, NoneV>> : mk \in {"dict", "obj"}}
    \cup {<<TRUE, mk, TRUE, c>> : mk \in {"dict", "obj"}, c \in Contents}
TextShapes == {<<FALSE, NoneV>>} \cup {<<TRUE, x>> : x \in FlatTexts}

Choices ==
    {Choice("obj", m[1], m[2], m[3], m[4], x[1], x[2]) :
        m \in MessageShapes, x \in TextShapes}
    \cup {Choice("dict", m[1], m[2], m[3], m[4], x[1], x[2]) :
        m \in {s \in MessageShapes : s[2] # "obj"},
        x \in {<<FALSE, NoneV>>, <<TRUE, Str(<<"t">>)>>}}

\* The hosted chat call: it raises, or returns a response without a choices
\* attribute, with no choice, or with a first choice.
ChatOutcomes ==
    {[k |-> "raise", choices |-> <<>>], [k |-> "nochoices", choices |-> <<>>],
     [k |-> "resp", choices |-> <<>>]}
    \cup {[k |-> "resp", choices |-> <<c>>] : c \in Choices}

\* The three attempts tried in another order: the flat text first.
extract_TextFirst(choice) ==
    IF choice.kind = "obj" /\ choice.hasText THEN choice.text
    ELSE IF choice.kind = "obj" /\ choice.hasMsg /\ choice.mk \in {"dict", "obj"}
            /\ choice.hasContent THEN choice.content
    ELSE IF choice.kind = "dict" /\ choice.hasMsg /\ choice.mk = "dict"
         THEN (IF choice.hasContent THEN choice.content ELSE NoneV)
    ELSE NoneV

\* _extract_text_from_choice(choice).  hasattr() is false on a dict for
\* "message" and "text"; isinstance(choice, dict) is false on an object.
extract_text_from_choice(choice) ==
    IF choice.kind = "obj" /\ choice.hasMsg
       /\ choice.mk \in {"dict", "obj"} /\ choice.hasContent
    THEN choice.content
    ELSE IF choice.kind = "dict" /\ choice.hasMsg /\ choice.mk = "dict"
    THEN (IF choice.hasContent THEN choice.content ELSE NoneV)
    ELSE IF choice.kind = "obj" /\ choice.hasText
    THEN choice.text
    ELSE NoneV

\* The FAQ-hit test written with a strict comparison.
faqHit_Strict(score, v) == score > thresholdOf(v)

\* "if score >= 0.7" / "if score >= threshold"
faqHit(score, v) == score >= thresholdOf(v)

Reply(result, source, faqIdx, simsComputed, chatCalls, extracted) ==
    [k |-> "reply", raised |-> FALSE, result |-> result, source |-> source,
     faqIdx |-> faqIdx, simsComputed |-> simsComputed, chatCalls |-> chatCalls,
     extracted |-> extracted]

\* An exception leaving respond.
Raised(simsComputed, chatCalls) ==
    [k |-> "reply", raised |-> TRUE, result |-> NoneV, source |-> "exception",
     faqIdx |-> 0, simsComputed |-> simsComputed, chatCalls |-> chatCalls,
     extracted |-> NoneV]

\* The hosted call made outside any try block.
onChatRaise_Propagates(simsComputed) == Raised(simsComputed, 1)

\* The handler returning the other fixed message.
onChatRaise_Uncertain(simsComputed) ==
    Reply(MSG_UNCERTAIN, "offline", 0, simsComputed, 1, NoneV)

\* except Exception: return the offline message (agent.py 173-175).
onChatRaise(simsComputed) ==
    Reply(MSG_OFFLINE, "offline", 0, simsComputed, 1, NoneV)

\* The fallback of respond (agent.py 153-175): one hosted chat call.
chatFallback(simsComputed, chat) ==
    IF chat.k = "raise"
    THEN onChatRaise(simsComputed)
    ELSE IF chat.k = "resp" /\ Len(chat.choices) > 0
    THEN LET text == extract_text_from_choice(chat.choices[1])
         IN  IF Truthy(text)
             THEN Reply(Str(strip(text.s)), "chat", 0, simsComputed, 1, text)
             ELSE Reply(MSG_UNCERTAIN, "uncertain", 0, simsComputed, 1, text)
    ELSE Reply(MSG_UNCERTAIN, "uncertain", 0, simsComputed, 1, NoneV)

\* The guard written without strip(), "if not user_query": a query of
\* blanks goes on to the FAQ stage and the hosted call.
respond_NoStrip(user_query, faq, chat) ==
    IF ~Truthy(user_query)
    THEN Reply(MSG_INVALID, "invalid", 0, FALSE, 0, NoneV)
    ELSE IF question_vectors # "None" /\ faq.k = "sims"
            /\ faqHit(faq.sims[argmax(faq.sims)], variant)
    THEN Reply(answersOfFaq(qa_pairs)[argmax(faq.sims)], "faq",
               argmax(faq.sims), TRUE, 0, NoneV)
    ELSE chatFallback(question_vectors # "None", chat)

\* respond(user_query): faq is the outcome of the FAQ stage should it run,
\* chat the outcome of the hosted call should it be made.
respond(user_query, faq, chat) ==
    LET user_query_text == IF Truthy(user_query) THEN strip(user_query.s) ELSE <<>>
    IN  IF user_query_text = <<>>
        THEN Reply(MSG_INVALID, "invalid", 0, FALSE, 0, NoneV)
        ELSE IF question_vectors # "None" /\ faq.k = "sims"
                /\ faqHit(faq.sims[argmax(faq.sims)], variant)
        THEN Reply(answersOfFaq(qa_pairs)[argmax(faq.sims)], "faq",
                   argmax(faq.sims), TRUE, 0, NoneV)
        ELSE chatFallback(question_vectors # "None", chat)

Queries == {NoneV, EmptyStr, Str(<<" ">>), Str(<<" ", "a", " ">>)}
\* request.json.get('message', ''): a str, null, or a JSON number.
AskMessages == {EmptyStr, Str(<<" ">>), Str(<<" ", "a", " ">>), Num(5)}

InitChat ==
    /\ variant \in {"agent", "chat_agent"}
    /\ qa_pairs \in Corpora
    /\ question_vectors \in {"fitted", "None"}
    /\ chIn = NoCall
    /\ chOut = NoCall

\* A direct call chatbot.respond(user_query).
Respond ==
    \E user_query \in Queries, faq \in FaqOutcomes(Len(qa_pairs)), chat \in ChatOutcomes :
        /\ chIn = NoCall
        /\ chIn' = [k |-> "respond", query |-> user_query, faq |-> faq, chat |-> chat]
        /\ chOut' = respond(user_query, faq, chat)
        /\ UNCHANGED <<variant, qa_pairs, question_vectors, batchVars, scoreVars, webVars>>

\* POST /ask (app.py 29-39): a message that is no str raises inside the try
\* at user_input.strip(); an empty one is answered at once; the others go to
\* handle_user_query.
Ask ==
    \E message \in AskMessages, faq \in FaqOutcomes(Len(qa_pairs)), chat \in ChatOutcomes :
        /\ chIn = NoCall
        /\ chIn' = [k |-> "ask", query |-> message, faq |-> faq, chat |-> chat]
        /\ chOut' =
             IF ~Truthy(message)
             THEN Reply(MSG_ASK_INVALID, "ask_invalid", 0, FALSE, 0, NoneV)
             ELSE IF ~IsStr(message)
             THEN Reply(MSG_ASK_ERROR, "ask_error", 0, FALSE, 0, NoneV)
             ELSE IF strip(message.s) = <<>>
             THEN Reply(MSG_ASK_INVALID, "ask_invalid", 0, FALSE, 0, NoneV)
             ELSE respond(message, faq, chat)
        /\ UNCHANGED <<variant, qa_pairs, question_vectors, batchVars, scoreVars, webVars>>

InitChatSpec == InitBatchIdle /\ InitScoreIdle /\ InitChat /\ InitWebIdle
NextChat == Respond \/ Ask
SpecChat == InitChatSpec /\ [][NextChat]_vars

(***************************************************************************)
(* The lexical match computed: TfidfVectorizer(stop_words=sw) fitted on    *)
(* the lower-cased questions, the query transformed into that space, and   *)
(* the cosine similarities.  The idf weights are positive, so a similarity *)
(* is 0 exactly when the two texts share no kept term (or one has none),   *)
(* 1 exactly when their term counts are proportional, and lies strictly    *)
(* between otherwise, where its value is left open.                        *)
(***************************************************************************)
\* stopwords.words("english") holds "be"; "ab" and "ba" stand for words it
\* does not hold.
StopWords == {<<"b", "e">>}

\* Punctuation separates tokens as blanks do.
unpunct(s) == [i \in 1..Len(s) |-> IF s[i] = "?" THEN " " ELSE s[i]]

\* The analyzer: lower case, tokens of two or more word characters (the
\* default token_pattern), stop words removed.
keptTerm(w) == Len(w) >= 2 /\ w \notin StopWords
analyze(text) == SelectSeq(split(unpunct(lower(text))), keptTerm)

termsOf(text) == {analyze(text)[j] : j \in 1..Len(analyze(text))}
vocabulary(questions) == UNION {termsOf(questions[i]) : i \in 1..Len(questions)}

\* fit_transform raises ValueError (empty vocabulary) when no question has a
\* kept term; __init__ then sets question_vectors to None.
fit(questions) == IF vocabulary(questions) = {} THEN "None" ELSE "fitted"

\* The counts of the vocabulary's terms in a text: transform ignores the
\* terms the vocabulary does not hold.
termCounts(text, vocab) == [w \in vocab |-> CountOf(w, analyze(text))]
orthogonal(c1, c2) == \A w \in DOMAIN c1 : c1[w] * c2[w] = 0
parallel(c1, c2) ==
    /\ \E w \in DOMAIN c1 : c1[w] # 0
    /\ \E w \in DOMAIN c2 : c2[w] # 0
    /\ \A v, w \in DOMAIN c1 : c1[v] * c2[w] = c1[w] * c2[v]

\* cosine_similarity(qvec, question_vectors) in hundredths; between[i] is the
\* value of a similarity that is neither 0 nor 1.
lexicalSims(query, questions, between) ==
    LET vocab == vocabulary(questions)
        q == termCounts(query, vocab)
    IN  [i \in 1..Len(questions) |->
            LET d == termCounts(questions[i], vocab)
            IN  IF orthogonal(q, d) THEN 0
                ELSE IF parallel(q, d) THEN 100
                ELSE between[i]]

\* The questions of a FAQ document: two with the same words in another
\* order, one made of a stop word only, one sharing a word with the first.
LexQuestions == {<<"A", "b", " ", "b", "a", "?">>, <<"b", "a", " ", "a", "b">>,
                 <<"B", "e", "?">>, <<"a", "b">>}
LexCorpora ==
    UNION {{[i \in 1..n |-> [question |-> qs[i], answer |-> Str(<<"answer", i>>)]] :
              qs \in [1..n -> LexQuestions]} : n \in 1..MaxFaq}
\* The queries: the stored questions as written, in lower case and with
\* blanks around, and a text that is no stored question.
LexQueries == {Str(q) : q \in LexQuestions}
              \cup {Str(lower(q)) : q \in LexQuestions}
              \cup {Str(<<" ", "B", "A", " ", "A", "B", " ">>), Str(<<"a", "b", " ", "a", "a">>)}
BetweenValues == {50, 90}
LexChatOutcomes == {c \in ChatOutcomes :
                      \/ c.k = "raise"
                      \/ (c.k = "resp" /\ Len(c.choices) = 1
                          /\ c.choices[1] = Choice("obj", TRUE, "obj", TRUE,
                                                   Str(<<" ", "h", " ">>), FALSE, NoneV))}

InitLex ==
    /\ variant \in {"agent", "chat_agent"}
    /\ qa_pairs \in LexCorpora
    /\ question_vectors = fit(questionsOf(qa_pairs))
    /\ chIn = NoCall
    /\ chOut = NoCall

\* chatbot.respond(user_query) with the FAQ stage computed from the corpus.
RespondLexical ==
    \E user_query \in LexQueries, between \in [1..Len(qa_pairs) -> BetweenValues],
       chat \in LexChatOutcomes :
        LET faq == [k |-> "sims",
                    sims |-> lexicalSims(lower(strip(user_query.s)),
                                         questionsOf(qa_pairs), between)]
        IN  /\ chIn = NoCall
            /\ chIn' = [k |-> "respond", query |-> user_query, faq |-> faq, chat |-> chat]
            /\ chOut' = respond(user_query, faq, chat)
            /\ UNCHANGED <<variant, qa_pairs, question_vectors, batchVars, scoreVars, webVars>>

InitLexSpec == InitBatchIdle /\ InitScoreIdle /\ InitLex /\ InitWebIdle
NextLex == RespondLexical
SpecLex == InitLexSpec /\ [][NextLex]_vars

(***************************************************************************)
(* Properties of the chatbot.                                              *)
(***************************************************************************)
Replied == chOut # NoCall
\* The request reached respond with a query that is not blank.
QueryNonEmpty == IsStr(chIn.query) /\ strip(chIn.query.s) # <<>>
\* The hosted chat call was made.
OnFallback == Replied /\ chOut.chatCalls = 1
FirstChoice == chIn.chat.choices[1]
HasFirstChoice == chIn.chat.k = "resp" /\ Len(chIn.chat.choices) > 0

\* The text each of the three shapes carries in a choice, None if the choice
\* has not that shape: an object's message with a content field, a dict with
\* a dict message, an object's flat text attribute.
Shape1Present(c) == c.kind = "obj" /\ c.hasMsg /\ c.mk \in {"dict", "obj"} /\ c.hasContent
Shape2Present(c) == c.kind = "dict" /\ c.hasMsg /\ c.mk = "dict"
Shape3Present(c) == c.kind = "obj" /\ c.hasText
ShapeText1(c) == IF Shape1Present(c) THEN c.content ELSE NoneV
ShapeText2(c) == IF Shape2Present(c) /\ c.hasContent THEN c.content ELSE NoneV
ShapeText3(c) == IF Shape3Present(c) THEN c.text ELSE NoneV
FirstNonEmptyText(c) ==
    IF Truthy(ShapeText1(c)) THEN ShapeText1(c)
    ELSE IF Truthy(ShapeText2(c)) THEN ShapeText2(c)
    ELSE IF Truthy(ShapeText3(c)) THEN ShapeText3(c)
    ELSE NoneV
FirstPresentText(c) ==
    IF Shape1Present(c) THEN ShapeText1(c)
    ELSE IF Shape2Present(c) THEN ShapeText2(c)
    ELSE IF Shape3Present(c) THEN ShapeText3(c)
    ELSE NoneV

\* C5: every call of respond, direct or through /ask, returns a string and
\* raises nothing, whatever the FAQ stage and the hosted call do.
C5_RespondReturnsString ==
    Replied => (~chOut.raised /\ IsStr(chOut.result))

C5_Witness ==
    /\ Replied /\ chIn.k = "respond" /\ QueryNonEmpty
    /\ question_vectors = "fitted" /\ chIn.faq.k = "error"
    /\ chIn.chat.k = "raise"
    /\ chOut.result = MSG_OFFLINE

\* C6: for a non-empty query, with a fitted index and a maximum similarity at
\* or above the threshold the reply is the stored answer of the first entry
\* holding the maximum and no hosted call is made; with no index or a maximum
\* below the threshold exactly one hosted call is made and the reply is not
\* taken from the FAQ.
MaxSim(s) == CHOOSE m \in {s[i] : i \in 1..Len(s)} : \A j \in 1..Len(s) : s[j] <= m
FirstAt(s, m) == CHOOSE i \in 1..Len(s) : s[i] = m /\ \A j \in 1..(i - 1) : s[j] # m

C6_FaqRouting ==
    (Replied /\ QueryNonEmpty) =>
        /\ (question_vectors = "fitted" /\ chIn.faq.k = "sims"
            /\ MaxSim(chIn.faq.sims) >= thresholdOf(variant))
              => /\ chOut.result = qa_pairs[FirstAt(chIn.faq.sims, MaxSim(chIn.faq.sims))].answer
                 /\ chOut.source = "faq"
                 /\ chOut.chatCalls = 0
        /\ (question_vectors = "None"
            \/ (chIn.faq.k = "sims" /\ MaxSim(chIn.faq.sims) < thresholdOf(variant)))
              => /\ chOut.chatCalls = 1
                 /\ chOut.source # "faq"

C6_Witness ==
    /\ Replied /\ QueryNonEmpty
    /\ question_vectors = "fitted" /\ chIn.faq.k = "sims"
    /\ Len(chIn.faq.sims) = 2
    /\ chIn.faq.sims[1] = thresholdOf(variant) /\ chIn.faq.sims[2] = thresholdOf(variant)
    /\ chOut.source = "faq" /\ chOut.faqIdx = 1 /\ chOut.chatCalls = 0

C10_DistinctFailureMessages ==
    /\ MSG_OFFLINE # MSG_UNCERTAIN
    /\ OnFallback =>
         /\ chIn.chat.k = "raise" => chOut.result = MSG_OFFLINE
         /\ (chIn.chat.k # "raise" /\ ~HasFirstChoice) => chOut.result = MSG_UNCERTAIN
         /\ (HasFirstChoice /\ ~Truthy(FirstNonEmptyText(FirstChoice)))
               => chOut.result = MSG_UNCERTAIN

C10_Witness ==
    /\ OnFallback /\ chIn.chat.k = "nochoices"
    /\ chOut.result = MSG_UNCERTAIN

\* C11: a query that is missing (None), empty or made of blanks only is
\* answered by respond with the fixed 'please enter a valid question' message,
\* no similarity computed and no hosted call made; /ask answers such a
\* message with its own fixed reply and does not call handle_user_query.
QueryBlank == ~Truthy(chIn.query) \/ (IsStr(chIn.query) /\ strip(chIn.query.s) = <<>>)

C11_EmptyQueryGuard ==
    (Replied /\ QueryBlank) =>
        /\ ~chOut.raised
        /\ ~chOut.simsComputed
        /\ chOut.chatCalls = 0
        /\ chIn.k = "respond" => (chOut.result = MSG_INVALID /\ chOut.source = "invalid")
        /\ chIn.k = "ask" => (chOut.result = MSG_ASK_INVALID /\ chOut.source = "ask_invalid")

C11_Witness ==
    /\ Replied /\ chIn.k = "respond"
    /\ chIn.query = Str(<<" ">>)
    /\ question_vectors = "fitted" /\ chIn.faq.k = "sims"
    /\ chOut.result = MSG_INVALID

\* The query is, case-insensitively, the stored question of entry i.
SelfQuery(i) ==
    /\ Replied /\ IsStr(chIn.query)
    /\ i \in 1..Len(qa_pairs)
    /\ lower(strip(chIn.query.s)) = lower(qa_pairs[i].question)
SameQuestion(i, j) == lower(qa_pairs[i].question) = lower(qa_pairs[j].question)
\* Entry j's question has the term counts of entry i's up to a factor.
SameTerms(i, j) ==
    parallel(termCounts(lower(qa_pairs[i].question), vocabulary(questionsOf(qa_pairs))),
             termCounts(lower(qa_pairs[j].question), vocabulary(questionsOf(qa_pairs))))
HasKeptTerm(i) == analyze(qa_pairs[i].question) # <<>>

\* C16 as stated: for every corpus and every query equal, case-insensitively,
\* to a stored question, that entry has similarity 1.0, respond returns the
\* stored answer of the first entry holding the maximum, and that entry is
\* the one asked for.
C16_SelfSimilarity ==
    \A i \in 1..MaxFaq :
        SelfQuery(i) =>
            /\ chIn.faq.sims[i] = 100
            /\ chOut.source = "faq"
            /\ chOut.faqIdx = FirstAt(chIn.faq.sims, 100)
            /\ chOut.result = qa_pairs[chOut.faqIdx].answer
            /\ SameQuestion(chOut.faqIdx, i)

\* C16 amended: for a query equal, case-insensitively, to a stored question
\* that has at least one term the vectorizer keeps (two or more word
\* characters, no stop word), that entry has similarity 1.0 and respond
\* returns, with no hosted call, the stored answer of the first entry in
\* corpus order with similarity 1.0: the entry asked for, or an earlier one
\* whose question has the same term counts up to a factor.  A stored
\* question with no kept term has similarity 0.0 to every query.
C16_SelfSimilarityKeptTerms ==
    \A i \in 1..MaxFaq :
        SelfQuery(i) =>
            IF HasKeptTerm(i)
            THEN /\ question_vectors = "fitted"
                 /\ chIn.faq.sims[i] = 100
                 /\ chOut.source = "faq"
                 /\ chOut.chatCalls = 0
                 /\ chOut.faqIdx = FirstAt(chIn.faq.sims, 100)
                 /\ chOut.result = qa_pairs[chOut.faqIdx].answer
                 /\ (chOut.faqIdx = i \/ (chOut.faqIdx < i /\ SameTerms(chOut.faqIdx, i)))
            ELSE /\ chIn.faq.sims[i] = 0
                 /\ chOut.source = "faq" => chOut.faqIdx # i

C16_Witness ==
    /\ SelfQuery(2)
    /\ ~SameQuestion(1, 2)
    /\ chIn.query = Str(<<" ", "B", "A", " ", "A", "B", " ">>)
    /\ chIn.faq.sims = <<100, 100>>
    /\ chOut.source = "faq" /\ chOut.faqIdx = 1
    /\ chOut.result = qa_pairs[1].answer

(***************************************************************************)
(* Properties of the batch driver.                                         *)
(***************************************************************************)
WrittenCols == ScoreCols \cup {TotalColumn}
CellBlank(v) == strip(strOf(v)) = <<>>
colsWritten(r, i) == {c \in Columns : <<r, i, c>> \in cellWrites}
wrote(r, i) == colsWritten(r, i) # {}
RowPopulated(row) == \A c \in WrittenCols : ~CellBlank(row[c])

\* C1 as stated: of two runs in succession that both return, the second
\* reports "Updated 0 responses" -- in every configuration.
C1_SecondRunReportsZero ==
    \A r1, r2 \in Runs :
        (pc[r1] = "done" /\ pc[r2] = "done" /\ r1 \in doneAtOpen[r2])
            => updated[r2] = 0

\* C1 amended: with SURVEY_DEBUG off (cells are written), of two runs in
\* succession that both return, the second reports "Updated 0 responses".
C1_Idempotent == ~DEBUG => C1_SecondRunReportsZero

C1_Witness ==
    /\ ~DEBUG
    /\ \E r1, r2 \in Runs :
          /\ pc[r1] = "done" /\ pc[r2] = "done" /\ r1 \in doneAtOpen[r2]
          /\ updated[r1] > 0 /\ updated[r2] = 0

\* C2: with writing on, after a run was interrupted and a later run returned,
\* every data row has Score Q1, Score Q2, Score Q3 and Total populated, and no
\* cell the interrupted run wrote was written again.
C2_CrashResumable ==
    \A r1, r2 \in Runs :
        (~DEBUG /\ r1 < r2 /\ pc[r1] = "crashed" /\ pc[r2] = "done")
            => /\ \A i \in 1..Len(sheet) : RowPopulated(sheet[i])
               /\ \A i \in 1..Len(sheet) : colsWritten(r1, i) \cap colsWritten(r2, i) = {}

\* C4: when a required column is absent from the header, every run that
\* started has raised, no run fetched the rows, made an embedding call or
\* wrote a cell, and the sheet is as it was.
C4_StructuralStop ==
    (\E c \in Columns : c \notin header)
        => /\ \A r \in Runs : /\ pc[r] \in {"idle", "raised"}
                              /\ readsDone[r] = 0
                              /\ embCalls[r] = 0
           /\ cellWrites = {}
           /\ sheet = sheet0

C4_Witness ==
    /\ \E c \in Columns : c \notin header
    /\ Len(sheet) > 0
    /\ \E r \in Runs : pc[r] = "raised"

\* C8: a row's cells are written by two runs only if the two overlapped (one
\* opened the sheet while the other was in progress) and both had read the
\* row as not scored; runs that do not overlap never write a row twice.
Overlap(r1, r2) == r1 \in activeAtOpen[r2] \/ r2 \in activeAtOpen[r1]

C8_DoubleWriteOnlyByOverlap ==
    \A r1, r2 \in Runs : \A i \in 1..Len(sheet) :
        (r1 # r2 /\ wrote(r1, i) /\ wrote(r2, i))
            => /\ Overlap(r1, r2)
               /\ CellBlank(startSheet[r1][i]["Score Q1"])
               /\ CellBlank(startSheet[r2][i]["Score Q1"])

C8_Witness ==
    \E r1, r2 \in Runs : \E i \in 1..Len(sheet) :
        /\ r1 # r2
        /\ colsWritten(r1, i) = WrittenCols
        /\ colsWritten(r2, i) = WrittenCols
        /\ pc[r1] = "done" /\ pc[r2] = "done"

\* C9 as stated: over complete runs one at a time, a row whose Score Q1 cell
\* is non-empty when a run reads it has no cell written by that run, a row
\* whose Score Q1 cell is empty gets exactly the four cells written, and no
\* row is written by two runs.
AllComplete == \A q \in Runs : pc[q] \in {"idle", "done"}

ScoredQuestions(hdr, row) ==
    LET v(k) == answersOf(hdr, row)[QIDS[k]]
    IN  {k \in 1..Len(QIDS) :
            /\ IsStr(v(k)) /\ strip(v(k).s) # <<>>
            /\ \A j \in 1..(k - 1) : ~(Truthy(v(j)) /\ ~IsStr(v(j)))}

Envs == [AZURE_OPENAI_KEY : BOOLEAN, AZURE_OPENAI_ENDPOINT : BOOLEAN,
         JSON_CONTENT : {"unset", "invalid", "valid"},
         JSON_PATH : {"unset", "nofile", "file"},
         render_file : BOOLEAN, local_file : BOOLEAN]

\* survey_agent.get_google_creds(): the credentials, or the exception raised.
get_google_creds(e) ==
    IF e.JSON_CONTENT = "valid" THEN "creds"
    ELSE IF e.JSON_CONTENT = "invalid" THEN "RuntimeError"
    ELSE IF e.JSON_PATH = "file" THEN "creds"
    ELSE IF e.render_file THEN "creds"
    ELSE IF e.local_file THEN "creds"
    ELSE "FileNotFoundError"

\* agent._get_service_account_credentials(): the same four sources in the
\* same order; called by get_gspread_client, that is, per report request.
get_service_account_credentials(e) ==
    IF e.JSON_CONTENT = "valid" THEN "creds"
    ELSE IF e.JSON_CONTENT = "invalid" THEN "RuntimeError"
    ELSE IF e.JSON_PATH = "file" THEN "creds"
    ELSE IF e.render_file THEN "creds"
    ELSE IF e.local_file THEN "creds"
    ELSE "FileNotFoundError"

\* agent.py 47-59: a missing Azure setting prints a warning and the client
\* is constructed all the same; whether the constructor of the SDK raises on
\* the missing value (sdkRaises) is the library's affair.
importAgent(e, sdkRaises) ==
    IF ~(e.AZURE_OPENAI_KEY /\ e.AZURE_OPENAI_ENDPOINT) /\ sdkRaises
    THEN "failed" ELSE "ready"

\* survey_agent.py 46 and 75-82: creds = get_google_creds() at module level,
\* then RuntimeError if the endpoint or the key is not set.
importSurvey(e) ==
    IF get_google_creds(e) # "creds" THEN "failed"
    ELSE IF ~e.AZURE_OPENAI_ENDPOINT \/ ~e.AZURE_OPENAI_KEY THEN "failed"
    ELSE "ready"

\* python app.py / python survey_agent.py: the module-level code runs.
ImportModule ==
    /\ phase = "start"
    /\ \E sdkRaises \in BOOLEAN :
          phase' = IF proc = "web" THEN importAgent(env, sdkRaises)
                   ELSE importSurvey(env)
    /\ UNCHANGED <<proc, env, users, users0, bcryptStrict, rqIn, rqOut,
                   batchVars, scoreVars, chatVars>>

\* app.run(...) / process_unscored_responses(): the process takes up its
\* work (requests are answered, the batch run starts).
Serve ==
    /\ phase = "ready"
    /\ phase' = "serving"
    /\ UNCHANGED <<proc, env, users, users0, bcryptStrict, rqIn, rqOut,
                   batchVars, scoreVars, chatVars>>

(***************************************************************************)
(* auth/auth.py: the users file and verify_user.  A stored value and a      *)
(* password are texts; a bcrypt hash is the text "$2b$" followed by what    *)
(* bcrypt keys on, the first 72 bytes of the password.                      *)
(***************************************************************************)
\* str.startswith
startswith(s, prefix) == Len(s) >= Len(prefix) /\ SubSeq(s, 1, Len(prefix)) = prefix

HashPrefix == <<"$", "2", "b", "$">>
bcryptKey(pw) == IF Len(pw) > 72 THEN SubSeq(pw, 1, 72) ELSE pw
\* bcrypt.hashpw(password, gensalt()): a build that rejects long passwords
\* raises ValueError on more than 72 bytes, another truncates silently.
hashpwRaises(pw, strict) == strict /\ Len(pw) > 72
hashpw(pw) == HashPrefix \o bcryptKey(pw)
\* bcrypt.checkpw(password.encode(), stored.encode()) inside try / except
\* Exception: return False -- password.encode() of a non-str raises, a
\* stored text that is no hash raises "Invalid salt".
checkpw(password, stored, strict) ==
    IF ~IsStr(password) THEN FALSE
    ELSE IF ~startswith(stored, HashPrefix) THEN FALSE
    ELSE IF hashpwRaises(password.s, strict) THEN FALSE
    ELSE hashpw(password.s) = stored

\* users.get(username)
storeGet(store, username) ==
    IF IsStr(username) /\ username.s \in DOMAIN store THEN store[username.s] ELSE NoneV

\* isinstance(stored, str) and stored.startswith("$2")
looksHashed(stored) == IsStr(stored) /\ startswith(stored.s, <<"$", "2">>)

\* verify_user(username, password): the result, the users file after the
\* call and whether the file was read.
verify_user(store, username, password, strict) ==
    IF ~Truthy(username) \/ ~Truthy(password)
    THEN [result |-> FALSE, store |-> store, loaded |-> FALSE]
    ELSE LET stored == storeGet(store, username)
         IN  IF ~Truthy(stored)
             THEN [result |-> FALSE, store |-> store, loaded |-> TRUE]
             ELSE IF looksHashed(stored)
             THEN [result |-> checkpw(password, stored.s, strict),
                   store |-> store, loaded |-> TRUE]
             ELSE IF password = stored
             THEN (IF hashpwRaises(password.s, strict)
                   THEN [result |-> FALSE, store |-> store, loaded |-> TRUE]
                   ELSE [result |-> TRUE,
                         store |-> [store EXCEPT ![username.s] = Str(hashpw(password.s))],
                         loaded |-> TRUE])
             ELSE [result |-> FALSE, store |-> store, loaded |-> TRUE]

(***************************************************************************)
(* app.py: POST /api/report.                                               *)
(***************************************************************************)
\* The gate left open: the report is generated whatever verify_user said.
reportAllowed_Always(verified) == TRUE

\* "if not verify_user(username, password): return ... 401"
reportAllowed(verified) == verified

Answer(status, why, verifyCalled, verified, storeRead, generateCalled,
       sheetAccess, store) ==
    [status |-> status, why |-> why, verifyCalled |-> verifyCalled,
     verified |-> verified, storeRead |-> storeRead,
     generateCalled |-> generateCalled, sheetAccess |-> sheetAccess,
     store |-> store]

\* generate_report_bytes(...): the credentials are looked up, the sheet is
\* fetched, then the format is chosen; an exception ends in a 500 reply.
generate_report(fmt, e, store) ==
    IF get_service_account_credentials(e) # "creds"
    THEN Answer(500, get_service_account_credentials(e), TRUE, TRUE, TRUE, TRUE, FALSE, store)
    ELSE IF fmt \notin {"csv", "xlsx"}
    THEN Answer(500, "ValueError", TRUE, TRUE, TRUE, TRUE, TRUE, store)
    ELSE Answer(200, "file", TRUE, TRUE, TRUE, TRUE, TRUE, store)

\* api_report() on the request body data, lines 54-89.  A username that is
\* truthy and no str has no strip(): AttributeError, answered 500.
api_report(data, store, e, strict) ==
    IF Truthy(data.username) /\ ~IsStr(data.username)
    THEN Answer(500, "AttributeError", FALSE, FALSE, FALSE, FALSE, FALSE, store)
    ELSE LET username == IF Truthy(data.username) THEN Str(strip(data.username.s))
                         ELSE EmptyStr
             password == IF Truthy(data.password) THEN data.password ELSE EmptyStr
         IN  IF ~Truthy(username) \/ ~Truthy(password)
             THEN Answer(401, "required", FALSE, FALSE, FALSE, FALSE, FALSE, store)
             ELSE LET v == verify_user(store, username, password, strict)
                  IN  IF ~reportAllowed(v.result)
                      THEN Answer(401, "invalid", TRUE, v.result, v.loaded,
                                  FALSE, FALSE, v.store)
                      ELSE LET g == generate_report(data.format, e, v.store)
                           IN  [g EXCEPT !.verified = v.result,
                                         !.storeRead = v.loaded]

\* Passwords: two short ones, one that starts like a hash, two longer than
\* 72 bytes that agree on the first 72.
PwP == <<"p">>
PwQ == <<"q">>
PwDollar == <<"$", "2", "p">>
PwLongX == [i \in 1..72 |-> "a"] \o <<"x">>
PwLongY == [i \in 1..72 |-> "a"] \o <<"y">>
UserU == <<"u">>
UserV == <<"v">>

\* The users file before any call: v has a hash, u has a legacy plaintext
\* password or a hash.
LegacyPlain == {Str(PwP), Str(PwDollar), Str(PwLongX)}
UserStores == {[n \in {UserU, UserV} |->
                  IF n = UserV THEN Str(hashpw(PwQ)) ELSE s] :
               s \in LegacyPlain \cup {Str(hashpw(PwP))}}

RequestPasswords == {NoneV, EmptyStr, Str(PwP), Str(PwQ), Str(PwDollar), Str(PwLongX),
                     Str(PwLongY), Num(5)}
\* data.get("username"): absent, blank, u with blanks around, v, an unknown
\* name, a JSON number.
RequestNames == {NoneV, Str(<<" ">>), Str(<<" ", "u", " ">>), Str(UserV),
                 Str(<<"w">>), Num(5)}
ReportRequests == [username : RequestNames, password : RequestPasswords,
                   format : {"csv", "pdf"}]

\* POST /api/report with a body of requests, served by the running web
\* process.
ApiReport(requests) ==
    /\ proc = "web" /\ phase = "serving"
    /\ \E data \in requests :
          LET a == api_report(data, users, env, bcryptStrict)
          IN  /\ rqIn' = [k |-> "report", data |-> data, before |-> users]
              /\ rqOut' = a
              /\ users' = a.store
    /\ UNCHANGED <<proc, env, phase, users0, bcryptStrict, batchVars, scoreVars, chatVars>>

\* A call verify_user(username, password).
VerifyUser ==
    /\ proc = "web" /\ phase = "serving"
    /\ \E username \in {NoneV, Str(UserU), Str(<<"w">>)}, password \in RequestPasswords :
          LET v == verify_user(users, username, password, bcryptStrict)
          IN  /\ rqIn' = [k |-> "verify", data |-> [username |-> username, password |-> password],
                          before |-> users]
              /\ rqOut' = v
              /\ users' = v.store
    /\ UNCHANGED <<proc, env, phase, users0, bcryptStrict, batchVars, scoreVars, chatVars>>

\* Start-up under every environment; the requests made of the web process
\* once it serves: one with valid credentials, one with none.
BootRequests == {[username |-> Str(UserV), password |-> Str(PwQ), format |-> "csv"],
                 [username |-> NoneV, password |-> NoneV, format |-> "csv"]}
InitBoot ==
    /\ proc \in {"web", "survey"}
    /\ env \in Envs
    /\ phase = "start"
    /\ users \in {s \in UserStores : s[UserU] = Str(hashpw(PwP))}
    /\ users0 = users
    /\ bcryptStrict = FALSE
    /\ rqIn = NoCall
    /\ rqOut = NoCall

InitBootSpec == InitBatchIdle /\ InitScoreIdle /\ InitChatIdle /\ InitBoot
NextBoot == ImportModule \/ Serve \/ ApiReport(BootRequests)
SpecBoot == InitBootSpec /\ [][NextBoot]_vars

\* The web process serving, with credentials found, not found, or invalid.
FullEnv == [AZURE_OPENAI_KEY |-> TRUE, AZURE_OPENAI_ENDPOINT |-> TRUE,
            JSON_CONTENT |-> "unset", JSON_PATH |-> "unset",
            render_file |-> FALSE, local_file |-> TRUE]
AuthEnvs == {FullEnv, [FullEnv EXCEPT !.local_file = FALSE],
             [FullEnv EXCEPT !.JSON_CONTENT = "invalid"]}
InitAuth ==
    /\ proc = "web"
    /\ env \in AuthEnvs
    /\ phase = "serving"
    /\ users \in UserStores
    /\ users0 = users
    /\ bcryptStrict \in BOOLEAN
    /\ rqIn = NoCall
    /\ rqOut = NoCall

InitAuthSpec == InitBatchIdle /\ InitScoreIdle /\ InitChatIdle /\ InitAuth
NextAuth == ApiReport(ReportRequests) \/ VerifyUser
SpecAuth == InitAuthSpec /\ [][NextAuth]_vars

(***************************************************************************)
(* Properties of start-up, of /api/report and of verify_user.              *)
(***************************************************************************)
\* Required configuration is missing: the hosted-model key or endpoint, or
\* every usable source of the service-account credentials.
ConfigMissing(e) ==
    \/ ~e.AZURE_OPENAI_KEY
    \/ ~e.AZURE_OPENAI_ENDPOINT
    \/ get_service_account_credentials(e) # "creds"

\* C15: when required configuration is missing, the import of the module
\* fails: the process (web or batch) never gets ready, never serves and
\* answers no request.
C15_ConfigFatalAtStartup ==
    ConfigMissing(env) =>
        /\ phase \in {"start", "failed"}
        /\ rqOut = NoCall

\* The last request was POST /api/report.
ReportDone == rqIn.k = "report"
\* The body carried a username that is text and not blank; a password.
NameGiven == IsStr(rqIn.data.username) /\ strip(rqIn.data.username.s) # <<>>
PasswordGiven == Truthy(rqIn.data.password)
\* The username is absent, empty or blank.
NameMissing == ~Truthy(rqIn.data.username)
               \/ (IsStr(rqIn.data.username) /\ strip(rqIn.data.username.s) = <<>>)
\* verify_user accepts the body's credentials against the users file as it
\* was when the request came.
CredentialsValid ==
    verify_user(rqIn.before, Str(strip(rqIn.data.username.s)), rqIn.data.password,
                bcryptStrict).result
NothingTouched ==
    /\ ~rqOut.verifyCalled /\ ~rqOut.storeRead
    /\ ~rqOut.generateCalled /\ ~rqOut.sheetAccess
    /\ users = rqIn.before

LegacyUser == users0[UserU] \in LegacyPlain
\* The passwords verify_user accepts for u against a users file.
Accepted(store) ==
    {pw \in RequestPasswords : verify_user(store, Str(UserU), pw, bcryptStrict).result}
\* The last call of verify_user (direct, or made by /api/report) and its result.
VerifyDone == rqIn.k = "verify" \/ (rqIn.k = "report" /\ rqOut.verifyCalled)
VerifyResult == IF rqIn.k = "verify" THEN rqOut.result ELSE rqOut.verified
VerifiedName == IF rqIn.k = "verify" THEN rqIn.data.username
                ELSE Str(strip(rqIn.data.username.s))

\* C19: for a user whose stored value is a plaintext password, after any
\* calls of verify_user the passwords accepted for the user are exactly the
\* original one; a call that returned True for the user has left a bcrypt
\* hash in place of the plaintext; a call that returned False has left the
\* users file as it was.
C19_MigrationPreservesAuth ==
    (LegacyUser /\ VerifyDone) =>
        /\ Accepted(users) = {users0[UserU]}
        /\ (VerifyResult /\ VerifiedName = Str(UserU))
              => users[UserU] = Str(hashpw(users0[UserU].s))
        /\ ~VerifyResult => users = rqIn.before

====
